---- MODULE Spec2Model ----
(***************************************************************************)
(* Tray synchronization core of blade_bar: the item registry, the menu     *)
(* cache and the bus client's shared item table, as implemented by         *)
(* src/tray_widget/widget.rs and by src/tray_widget.rs.  The repository    *)
(* holds both revisions of TrayWidget; the variable `revision` says which  *)
(* of the two is running.                                                  *)
(*                                                                         *)
(* Three specifications share the state:                                   *)
(*   Spec       - the registry under arbitrary event sequences             *)
(*   BridgeSpec - TrayWidget::new, the worker thread, the channel, the     *)
(*                foreground drain task and Drop (LiveBridge adds the      *)
(*                scheduling assumptions)                                  *)
(*   UiSpec     - the click handlers of the buttons and the activation     *)
(*                tasks they spawn                                         *)
(***************************************************************************)
EXTENDS Integers, Sequences, FiniteSets, Bags, TLC

(***************************************************************************)
(* Bounds and input domains                                                *)
(***************************************************************************)
\* at most this many button widgets exist at a time
MaxButtons == 2

\* the bus client broadcasts at most this many events after the worker subscribed
MaxEvents == 2

\* capacity of the subscription's broadcast buffer (scaled down)
StreamCapacity == 1

Revisions == {"widget", "legacy"}

Keys == {"svc:1", "svc:2"}

ItemIds == {"app", "other"}

NoTitle == "<no title>"

NoIcon == "<no icon>"

Icons == {NoIcon, "X"}

NoTooltip == [some |-> FALSE, title |-> "", description |-> ""]

ToolTips == {[some |-> TRUE, title |-> "tip", description |-> "text"]}

NoMenu == "<no menu>"

MenuTrees == {"T1", "T2"}

MenuPaths == {"/MenuBar"}

None == "<none>"

\* StatusNotifierItem values carried by Add events: per item id one titled
\* item without icon and one untitled item with an icon
Items ==
       [id : ItemIds, title : {"A"}, icon_name : {NoIcon}, tool_tip : {NoTooltip}]
  \cup [id : ItemIds, title : {NoTitle}, icon_name : {"X"}, tool_tip : {NoTooltip}]

\* UpdateEvent values; Status stands for the arms that only log and carry no
\* title or menu (AttentionIcon, OverlayIcon, Status)
UpdateEvents ==
       [kind : {"Status", "Title", "MenuDiff"}]
  \cup [kind : {"Icon"}, icon_name : Icons]
  \cup [kind : {"Tooltip"}, tooltip : ToolTips]
  \cup [kind : {"Menu"}, menu : MenuTrees]
  \cup [kind : {"MenuConnect"}, menu : MenuPaths]

NoEvent == [type |-> "None"]

(***************************************************************************)
(* HashMap operations                                                      *)
(***************************************************************************)
EmptyMap == [x \in {} |-> x]

MapInsert(m, k, v) == [x \in (DOMAIN m) \cup {k} |-> IF x = k THEN v ELSE m[x]]

MapRemove(m, k) == [x \in (DOMAIN m) \ {k} |-> m[x]]

MapGet(m, k) == IF k \in DOMAIN m THEN m[k] ELSE None

(***************************************************************************)
(* State                                                                   *)
(***************************************************************************)
\* what a handler can find under a service key in the bus client's items()
\* table, which the client's own tasks change concurrently: no entry, an entry
\* without menu, or an entry with a menu tree
ClientMenus == {None, NoMenu} \cup MenuTrees

VARIABLES
  revision,              \* which TrayWidget implementation runs
  items,                 \* service key -> StatusNotifierItem
  item_buttons,          \* service key -> button
  item_menus,            \* service key -> PopoverMenu realization
  item_manual_popovers,  \* service key -> manual Popover realization
  action_groups,         \* service key -> action group
  item_to_service_key,   \* item id -> service key
  container,             \* the GtkBox: buttons in append order
  button_state,          \* button -> what it shows and what its closures captured
  last,                  \* the event handled last, and what its handler found
  fold_items,            \* fold of the handled events: key -> item
  fold_index,            \* fold of the handled events: item id -> key
  scenario,              \* progress through Add(svc:1,app), Add(svc:2,app), Remove(svc:2)
  new_result,            \* TrayWidget::new: "pending", "Err" or "Ok"
  worker,                \* position of the background thread
  bus_items,             \* keys present in the bus client's items() table
  bus_closed,            \* the bus client has closed the subscription stream
  produced,              \* events the bus client broadcast since client.subscribe()
  tray_rx,               \* the worker's receiver: events received, lag flag
  event_ch,              \* the unbounded channel event_tx -> event_rx
  handled,               \* channel entries the drain task has handled, in order
  drain,                 \* the spawn_local task: "unspawned", "running", "ended"
  strong,                \* holders of a strong reference to the TrayWidget
  shutdown_sent,         \* shutdown_tx.send(()) has happened
  after_shutdown,        \* events the worker enqueued after the shutdown signal
  close,                 \* Drop: "none", "signalled", "returned"
  joined,                \* Drop has joined the worker thread
  gesture,               \* the click, if the last step of the user interface was one
  in_flight,             \* bag of the activation tasks spawned and not yet completed
  completed,             \* the completion, if the last step of the user interface was one
  menu_items,            \* the client's menu (TrayMenu.submenus) handed to a menu builder
  menu_built,            \* what the builder made of it
  menu_pick,             \* the entry of the built menu selected last
  threads,               \* number of thread::spawn calls executed
  listener_pc,           \* the worker thread's position in start_event_listener
  tasks,                 \* the foreground's tasks and callbacks: code and position
  running,               \* the task or callback the main thread is executing, or 0
  mutex,                 \* mutex -> holder of its guard
  queued,                \* events in the unbounded channel
  has_button             \* a tray button has been appended to the container

vars == <<revision, items, item_buttons, item_menus, item_manual_popovers,
          action_groups, item_to_service_key, container, button_state,
          last, fold_items, fold_index, scenario,
          new_result, worker, bus_items, bus_closed, produced, tray_rx, event_ch,
          handled, drain, strong, shutdown_sent, after_shutdown, close, joined,
          gesture, in_flight, completed,
          menu_items, menu_built, menu_pick,
          threads, listener_pc, tasks, running, mutex, queued, has_button>>

\* the state of the bridge: construction, worker, channel, drain task, Drop
BridgeVars ==
  <<new_result, worker, bus_items, bus_closed, produced, tray_rx, event_ch,
    handled, drain, strong, shutdown_sent, after_shutdown, close, joined>>

\* the state of the click handlers and activation tasks
UiVars == <<gesture, in_flight, completed>>

\* the state of the menu builders
MenuVars == <<menu_items, menu_built, menu_pick>>

\* threads, tasks and mutex guards
ExecVars == <<threads, listener_pc, tasks, running, mutex, queued, has_button>>

\* the registry maps and the container
Registry ==
  <<items, item_buttons, item_menus, item_manual_popovers, action_groups,
    item_to_service_key, container>>

(***************************************************************************)
(* tray_widget/controls.rs                                                 *)
(***************************************************************************)
\* create_tray_button: a new button whose three click closures capture the
\* item id and the service key by value.  Icon and tooltip (set_button_icon,
\* set_tooltip) only change how the button is drawn and are not part of the
\* registry state.
create_tray_button(item, service_key) ==
  [item_id |-> item.id, service_key |-> service_key]

(***************************************************************************)
(* Fold of the event sequence (the registry the events describe)           *)
(***************************************************************************)
FoldItems(fi, ev) ==
  CASE ev.type = "Add"    -> MapInsert(fi, ev.key, ev.item)
    [] ev.type = "Remove" -> MapRemove(fi, ev.key)
    [] OTHER              -> fi

FoldIndex(fx, ev) ==
  CASE ev.type = "Add"    -> MapInsert(fx, ev.item.id, ev.key)
    [] ev.type = "Remove" -> [i \in {j \in DOMAIN fx : fx[j] # ev.key} |-> fx[i]]
    [] OTHER              -> fx

ScenarioStep(s, ev) ==
  LET first == ev.type = "Add" /\ ev.key = "svc:1" /\ ev.item.id = "app"
  IN  CASE s = 1 /\ ev.type = "Add" /\ ev.key = "svc:2" /\ ev.item.id = "app" -> 2
        [] s = 2 /\ ev.type = "Remove" /\ ev.key = "svc:2" -> 3
        [] first -> 1
        [] OTHER -> 0

\* bookkeeping for the properties: the event handled, whether its key was
\* live and had a button when the handler started, how many buttons left the
\* container, and the fold of the events so far
Observe(ev) ==
  /\ last' = [ev EXCEPT !.was_live = ev.key \in DOMAIN items,
                        !.had_button = ev.key \in DOMAIN item_buttons,
                        !.unshown = Len(container) - Len(container')]
  /\ fold_items' = FoldItems(fold_items, ev)
  /\ fold_index' = FoldIndex(fold_index, ev)
  /\ scenario' = ScenarioStep(scenario, ev)

AddEvent(k, item, seen) ==
  [type |-> "Add", key |-> k, item |-> item, seen |-> seen,
   was_live |-> FALSE, had_button |-> FALSE, unshown |-> 0]

UpdateEvent(k, u, seen) ==
  [type |-> "Update", key |-> k, update |-> u, seen |-> seen,
   was_live |-> FALSE, had_button |-> FALSE, unshown |-> 0]

RemoveEvent(k) ==
  [type |-> "Remove", key |-> k,
   was_live |-> FALSE, had_button |-> FALSE, unshown |-> 0]

\* TrayWidget::new: empty maps, empty container
RegistryInit ==
  /\ revision \in Revisions
  /\ items = EmptyMap
  /\ item_buttons = EmptyMap
  /\ item_menus = EmptyMap
  /\ item_manual_popovers = EmptyMap
  /\ action_groups = EmptyMap
  /\ item_to_service_key = EmptyMap
  /\ container = <<>>
  /\ button_state = <<>>
  /\ last = NoEvent
  /\ fold_items = EmptyMap
  /\ fold_index = EmptyMap
  /\ scenario = 0

NoGesture == [kind |-> "None"]

NoCompletion == [outcome |-> "None", closing |-> FALSE]

NoRealization == [builder |-> "None"]

NoPick == [kind |-> "None"]

\* no menu is being built
MenuIdle ==
  /\ menu_items = <<>>
  /\ menu_built = NoRealization
  /\ menu_pick = NoPick

\* most tasks and callbacks the foreground holds at a time
MaxTasks == 4

\* most events the channel holds at a time
MaxQueued == 2

\* the six registry mutexes of TrayWidget and the mutex behind client.items()
RegistryLocks ==
  {"items", "item_buttons", "item_menus", "item_manual_popovers",
   "action_groups", "item_to_service_key"}

Locks == RegistryLocks \cup {"client.items"}

\* holders of a guard: nobody, the worker thread, or a foreground task
Nobody == 0

WorkerThread == -1

NoTask == [kind |-> "none", code |-> <<>>, pc |-> 0]

\* nothing runs: no thread, no task, every mutex free
ExecIdle ==
  /\ threads = 0
  /\ listener_pc = 0
  /\ tasks = [t \in 1..MaxTasks |-> NoTask]
  /\ running = 0
  /\ mutex = [m \in Locks |-> Nobody]
  /\ queued = 0
  /\ has_button = FALSE

\* nothing of the bridge has started
BridgeIdle ==
  /\ new_result = "pending"
  /\ worker = "unspawned"
  /\ bus_items = {}
  /\ bus_closed = FALSE
  /\ produced = <<>>
  /\ tray_rx = [pos |-> 0, lagged |-> FALSE]
  /\ event_ch = <<>>
  /\ handled = <<>>
  /\ drain = "unspawned"
  /\ strong = {}
  /\ shutdown_sent = FALSE
  /\ after_shutdown = 0
  /\ close = "none"
  /\ joined = FALSE

\* no click has happened
UiIdle ==
  /\ gesture = NoGesture
  /\ in_flight = EmptyBag
  /\ completed = NoCompletion

Init == RegistryInit /\ BridgeIdle /\ UiIdle /\ MenuIdle /\ ExecIdle

(***************************************************************************)
(* Button widgets.  A Button handle is opaque; it is represented by the    *)
(* rank of the widget among the existing buttons in creation order, so     *)
(* when a widget is destroyed the handles of the later ones are renamed.   *)
(***************************************************************************)
\* Button::new(): a widget distinct from every existing one
NewButton == Len(button_state) + 1

Renamed(x, gone) == IF x > gone THEN x - 1 ELSE x

\* GtkBox::remove(button): the box without the button, whose widget is
\* destroyed with it
BoxRemove(cont, b) ==
  LET rest == SelectSeq(cont, LAMBDA x : x # b)
  IN  [i \in 1..Len(rest) |-> Renamed(rest[i], b)]

ButtonsAfterDestroy(buttons, b) ==
  [k \in DOMAIN buttons |-> Renamed(buttons[k], b)]

StateAfterDestroy(bs, b) ==
  [i \in 1..(Len(bs) - 1) |-> IF i < b THEN bs[i] ELSE bs[i + 1]]

(***************************************************************************)
(* tray_widget/widget.rs                                                   *)
(***************************************************************************)
\* a variant that keeps an existing entry (first add wins)
IndexAfterAdd_KeepExisting(mapping, item_id, service_key) ==
  IF item_id \in DOMAIN mapping THEN mapping ELSE MapInsert(mapping, item_id, service_key)

\* the item id index after an Add: insert, overwriting
IndexAfterAdd(mapping, item_id, service_key) == MapInsert(mapping, item_id, service_key)

MenuBarPath(item_id) == <<"/MenuBar/", item_id>>

\* create_menu_for_item: a manual popover when the client holds menu data for
\* the key (its entries capture the service key as activation address), else
\* the basic fallback menu; each goes to its own map
create_menu_for_item(service_key, item, client_menu) ==
  IF client_menu \in MenuTrees
    THEN /\ item_manual_popovers' =
              MapInsert(item_manual_popovers, service_key,
                        [kind |-> "manual", src |-> <<client_menu>>,
                         address |-> service_key])
         /\ UNCHANGED item_menus
    ELSE /\ item_menus' =
              MapInsert(item_menus, service_key,
                        [kind |-> "basic", src |-> MenuBarPath(item.id)])
         /\ UNCHANGED item_manual_popovers

add_tray_item(service_key, item, client_menu) ==
  LET button == NewButton
  IN  /\ items' = MapInsert(items, service_key, item)
      /\ item_to_service_key' = IndexAfterAdd(item_to_service_key, item.id, service_key)
      /\ button_state' = Append(button_state, create_tray_button(item, service_key))
      /\ item_buttons' = MapInsert(item_buttons, service_key, button)
      /\ create_menu_for_item(service_key, item, client_menu)
      /\ container' = Append(container, button)
      /\ UNCHANGED action_groups

\* a variant that drops the stored item when an update arrives
update_tray_item_ForgetsItem(service_key, update_event) ==
  /\ items' = MapRemove(items, service_key)
  /\ UNCHANGED <<item_buttons, item_menus, item_manual_popovers,
                 action_groups, item_to_service_key, container, button_state>>

\* update_tray_item: redraws the button from the stored item; the update
\* event itself is not read
update_tray_item(service_key, update_event) ==
  UNCHANGED <<items, item_buttons, item_menus, item_manual_popovers,
              action_groups, item_to_service_key, container, button_state>>

\* a variant that purges the whole index when no item is stored under the key
IndexAfterRemove_ClearOnMiss(mapping, its, service_key) ==
  IF service_key \in DOMAIN its
    THEN MapRemove(mapping, its[service_key].id)
    ELSE EmptyMap

\* the item id index after remove_tray_item: the entry of the removed item's id
IndexAfterRemove(mapping, its, service_key) ==
  IF service_key \in DOMAIN its
    THEN MapRemove(mapping, its[service_key].id)
    ELSE mapping

\* buttons.remove(service_key), and container.remove(&button) if one was stored
remove_button(service_key) ==
  IF service_key \in DOMAIN item_buttons
    THEN LET b == item_buttons[service_key]
         IN  /\ item_buttons' = ButtonsAfterDestroy(MapRemove(item_buttons, service_key), b)
             /\ container' = BoxRemove(container, b)
             /\ button_state' = StateAfterDestroy(button_state, b)
    ELSE UNCHANGED <<item_buttons, container, button_state>>

remove_tray_item(service_key) ==
  /\ remove_button(service_key)
  /\ item_menus' = MapRemove(item_menus, service_key)
  /\ item_manual_popovers' = MapRemove(item_manual_popovers, service_key)
  /\ action_groups' = MapRemove(action_groups, service_key)
  /\ items' = MapRemove(items, service_key)
  /\ item_to_service_key' = IndexAfterRemove(item_to_service_key, items, service_key)

\* get_service_key_for_item
get_service_key_for_item(item_id) == MapGet(item_to_service_key, item_id)

WidgetAdd ==
  \E k \in Keys, item \in Items, client_menu \in ClientMenus :
    /\ revision = "widget"
    /\ Len(button_state) < MaxButtons
    /\ add_tray_item(k, item, client_menu)
    /\ Observe(AddEvent(k, item, client_menu))
    /\ UNCHANGED <<ExecVars, MenuVars, revision, BridgeVars, UiVars>>

WidgetUpdate ==
  \E k \in Keys, u \in UpdateEvents :
    /\ revision = "widget"
    /\ update_tray_item(k, u)
    /\ Observe(UpdateEvent(k, u, None))
    /\ UNCHANGED <<ExecVars, MenuVars, revision, BridgeVars, UiVars>>

WidgetRemove ==
  \E k \in Keys :
    /\ revision = "widget"
    /\ remove_tray_item(k)
    /\ Observe(RemoveEvent(k))
    /\ UNCHANGED <<ExecVars, MenuVars, revision, BridgeVars, UiVars>>

(***************************************************************************)
(* tray_widget.rs                                                          *)
(***************************************************************************)
\* Event::Add arm
legacy_add(key, item) ==
  LET button == NewButton
  IN  /\ items' = MapInsert(items, key, item)
      /\ item_to_service_key' = MapInsert(item_to_service_key, item.id, key)
      /\ button_state' = Append(button_state, create_tray_button(item, key))
      /\ item_buttons' = MapInsert(item_buttons, key, button)
      /\ container' = Append(container, button)
      /\ UNCHANGED <<item_menus, item_manual_popovers, action_groups>>

\* Event::Remove arm
legacy_remove(key) ==
  /\ items' = MapRemove(items, key)
  /\ remove_button(key)
  /\ UNCHANGED <<item_menus, item_manual_popovers, action_groups, item_to_service_key>>

\* a variant that files the new menu under the item id, as store_menu_for_item
\* would move it
MenusAfterMenuUpdate_StoredByItemId(key, tray_menu) ==
  IF key \in DOMAIN item_buttons /\ key \in DOMAIN items /\ key \notin DOMAIN item_menus
    THEN MapInsert(item_menus, items[key].id,
                   [kind |-> "popover_menu", src |-> <<tray_menu>>])
    ELSE item_menus

\* UpdateEvent::Menu arm: build from the event's tree unless a menu is stored
MenusAfterMenuUpdate(key, tray_menu) ==
  IF key \in DOMAIN item_buttons /\ key \in DOMAIN items /\ key \notin DOMAIN item_menus
    THEN MapInsert(item_menus, key, [kind |-> "popover_menu", src |-> <<tray_menu>>])
    ELSE item_menus

\* a variant that does not look the button and the item up first
MenusAfterMenuConnect_Unguarded(key, client_menu) ==
  IF client_menu \in MenuTrees
    THEN MapInsert(item_menus, key, [kind |-> "popover_menu", src |-> <<client_menu>>])
    ELSE item_menus

\* UpdateEvent::MenuConnect arm, create_popover_menu_for_service_key: build
\* from the client's menu data for the key and store it; without menu data a
\* basic popover is created and not stored
MenusAfterMenuConnect(key, client_menu) ==
  IF key \in DOMAIN item_buttons /\ key \in DOMAIN items /\ client_menu \in MenuTrees
    THEN MapInsert(item_menus, key, [kind |-> "popover_menu", src |-> <<client_menu>>])
    ELSE item_menus

\* Event::Update arm; the Icon and Tooltip arms redraw the button, the other
\* arms only log
legacy_update(key, event, client_menu) ==
  /\ item_menus' = CASE event.kind = "Menu" -> MenusAfterMenuUpdate(key, event.menu)
                     [] event.kind = "MenuConnect" -> MenusAfterMenuConnect(key, client_menu)
                     [] OTHER -> item_menus
  /\ UNCHANGED <<items, item_buttons, item_manual_popovers, action_groups,
                 item_to_service_key, container, button_state>>

LegacyAdd ==
  \E k \in Keys, item \in Items :
    /\ revision = "legacy"
    /\ Len(button_state) < MaxButtons
    /\ legacy_add(k, item)
    /\ Observe(AddEvent(k, item, None))
    /\ UNCHANGED <<ExecVars, MenuVars, revision, BridgeVars, UiVars>>

LegacyUpdate ==
  \E k \in Keys, u \in UpdateEvents, client_menu \in ClientMenus :
    /\ revision = "legacy"
    /\ u.kind # "MenuConnect" => client_menu = None
    /\ legacy_update(k, u, client_menu)
    /\ Observe(UpdateEvent(k, u, client_menu))
    /\ UNCHANGED <<ExecVars, MenuVars, revision, BridgeVars, UiVars>>

LegacyRemove ==
  \E k \in Keys :
    /\ revision = "legacy"
    /\ legacy_remove(k)
    /\ Observe(RemoveEvent(k))
    /\ UNCHANGED <<ExecVars, MenuVars, revision, BridgeVars, UiVars>>

Next ==
  \/ WidgetAdd \/ WidgetUpdate \/ WidgetRemove
  \/ LegacyAdd \/ LegacyUpdate \/ LegacyRemove

Spec == Init /\ [][Next]_vars

(***************************************************************************)
(* The bridge: TrayWidget::new, start_event_listener, the drain task, Drop *)
(***************************************************************************)
\* the item a service registers on the bus
BusItem(k) == [id |-> "app", title |-> "A", icon_name |-> NoIcon, tool_tip |-> NoTooltip]

\* the events the bus client broadcasts for a key
BridgeEvents(k) ==
  { [type |-> "Add", key |-> k, item |-> BusItem(k)],
    [type |-> "Update", key |-> k, update |-> [kind |-> "Icon", icon_name |-> "X"]],
    [type |-> "Remove", key |-> k] }

\* what a handler finds under the key in client.items() while the bridge runs
ClientRead(k) == IF k \in bus_items THEN {NoMenu, "T1"} ELSE {None}

\* what the handler of an event reads from client.items(): the Add handler of
\* widget.rs and the MenuConnect arm of tray_widget.rs look the key up
Seen(ev, client_menu) ==
  CASE ev.type = "Add" /\ revision = "widget" -> client_menu
    [] ev.type = "Update" /\ revision = "legacy" /\ ev.update.kind = "MenuConnect" -> client_menu
    [] OTHER -> None

\* handle_tray_event: dispatch on the event, in the revision that runs
handle_tray_event(ev, client_menu) ==
  /\ \/ /\ ev.type = "Add" /\ revision = "widget"
        /\ add_tray_item(ev.key, ev.item, client_menu)
     \/ /\ ev.type = "Add" /\ revision = "legacy"
        /\ legacy_add(ev.key, ev.item)
     \/ /\ ev.type = "Update" /\ revision = "widget"
        /\ update_tray_item(ev.key, ev.update)
     \/ /\ ev.type = "Update" /\ revision = "legacy"
        /\ legacy_update(ev.key, ev.update, Seen(ev, client_menu))
     \/ /\ ev.type = "Remove" /\ revision = "widget"
        /\ remove_tray_item(ev.key)
     \/ /\ ev.type = "Remove" /\ revision = "legacy"
        /\ legacy_remove(ev.key)
  /\ UNCHANGED revision

\* the bookkeeping record of an event
Observed(ev, client_menu) ==
  CASE ev.type = "Add" -> AddEvent(ev.key, ev.item, Seen(ev, client_menu))
    [] ev.type = "Update" -> UpdateEvent(ev.key, ev.update, Seen(ev, client_menu))
    [] OTHER -> RemoveEvent(ev.key)

Bookkeeping == <<last, fold_items, fold_index, scenario>>

RegistryVars ==
  <<revision, items, item_buttons, item_menus, item_manual_popovers, action_groups,
    item_to_service_key, container, button_state, last, fold_items, fold_index,
    scenario>>

\* a variant that starts the listener before looking at the connection result
WorkerAfterNew_SpawnFirst(connected) == "spawned"

\* the worker thread after new: spawned by start_event_listener, which the `?`
\* on Client::new() skips when the connection failed
WorkerAfterNew(connected) == IF connected THEN "spawned" ELSE "unspawned"

\* the drain task after new
DrainAfterNew(connected) == IF connected THEN "running" ELSE "unspawned"

\* TrayWidget::new when Client::new() fails: the error is returned
NewErr ==
  /\ new_result = "pending"
  /\ new_result' = "Err"
  /\ worker' = WorkerAfterNew(FALSE)
  /\ drain' = DrainAfterNew(FALSE)
  /\ UNCHANGED <<ExecVars, MenuVars, RegistryVars, UiVars, bus_items, bus_closed, produced, tray_rx,
                 event_ch, handled, strong, shutdown_sent, after_shutdown, close,
                 joined>>

\* TrayWidget::new when the client connects: worker thread, drain task, and
\* two strong references (the returned Arc and the drain task's tray_ptr)
NewOk ==
  /\ new_result = "pending"
  /\ new_result' = "Ok"
  /\ worker' = WorkerAfterNew(TRUE)
  /\ drain' = DrainAfterNew(TRUE)
  /\ strong' = {"main", "drain"}
  /\ UNCHANGED <<ExecVars, MenuVars, RegistryVars, UiVars, bus_items, bus_closed, produced, tray_rx,
                 event_ch, handled, shutdown_sent, after_shutdown, close, joined>>

\* main: the Arc returned by new goes out of scope after the widget was appended
MainRelease ==
  /\ "main" \in strong
  /\ strong' = strong \ {"main"}
  /\ UNCHANGED <<ExecVars, MenuVars, RegistryVars, UiVars, new_result, worker, bus_items, bus_closed,
                 produced, tray_rx, event_ch, handled, drain, shutdown_sent,
                 after_shutdown, close, joined>>

\* event_tx exists while the thread closure that owns it runs
SenderAlive == worker \in {"spawned", "subscribed", "select"}

\* event_rx exists while the drain task runs
ReceiverAlive == drain = "running"

\* Runtime::new().expect(..) when the runtime cannot be created: the thread panics
WorkerRuntimeFail ==
  /\ worker = "spawned"
  /\ worker' = "panicked"
  /\ UNCHANGED <<ExecVars, MenuVars, RegistryVars, UiVars, new_result, bus_items, bus_closed, produced,
                 tray_rx, event_ch, handled, drain, strong, shutdown_sent,
                 after_shutdown, close, joined>>

\* client.subscribe(): the receiver sees the events broadcast from now on
WorkerSubscribe ==
  /\ worker = "spawned"
  /\ worker' = "subscribed"
  /\ tray_rx' = [pos |-> Len(produced), lagged |-> FALSE]
  /\ UNCHANGED <<ExecVars, MenuVars, RegistryVars, UiVars, new_result, bus_items, bus_closed, produced,
                 event_ch, handled, drain, strong, shutdown_sent, after_shutdown,
                 close, joined>>

\* the orders in which a HashMap over the keys can be iterated
Orders(S) ==
  {q \in [1..Cardinality(S) -> S] : \A i, j \in 1..Cardinality(S) : i # j => q[i] # q[j]}

\* the synthesized Add of an initial item
InitialAdd(k) ==
  [ev |-> [type |-> "Add", key |-> k, item |-> BusItem(k)], src |-> "snapshot", at |-> 0]

\* a variant that leaves out the item iterated first
SnapshotSends_SkipFirst(q) == [i \in 1..(Len(q) - 1) |-> InitialAdd(q[i + 1])]

\* what the for loop over the snapshot sends: one Add per item, in iteration order
SnapshotSends(q) == [i \in 1..Len(q) |-> InitialAdd(q[i])]

\* the for loop over client.items(): one Add per item, until a send fails
WorkerSnapshot ==
  /\ worker = "subscribed"
  /\ worker' = "select"
  /\ \E q \in Orders(bus_items) :
       event_ch' = IF ReceiverAlive
                     THEN event_ch \o SnapshotSends(q)
                     ELSE event_ch
  /\ UNCHANGED <<ExecVars, MenuVars, RegistryVars, UiVars, new_result, bus_items, bus_closed, produced,
                 tray_rx, handled, drain, strong, shutdown_sent, after_shutdown,
                 close, joined>>

\* a variant in which a closed stream leaves recv() pending
StreamReady_PendingOnClose ==
  \/ tray_rx.lagged
  \/ tray_rx.pos < Len(produced)

\* what tray_rx.recv() has ready: an error once the receiver lagged or the
\* closed stream is used up, else the next event, else nothing
StreamReady ==
  \/ tray_rx.lagged
  \/ tray_rx.pos < Len(produced)
  \/ bus_closed

RecvIsErr == tray_rx.lagged \/ tray_rx.pos >= Len(produced)

\* the branches of the select! that can complete
ReadyBranches ==
  {b \in {"stream"} : StreamReady} \cup {b \in {"shutdown"} : shutdown_sent}

\* one turn of the select! loop: any ready branch may be taken.  The stream
\* branch forwards the event and goes on, or leaves the loop on a receive
\* error or a failed send; the shutdown branch leaves the loop.
WorkerSelect ==
  /\ worker = "select"
  /\ \E branch \in ReadyBranches :
       IF branch = "stream" /\ ~RecvIsErr
         THEN /\ tray_rx' = [tray_rx EXCEPT !.pos = @ + 1]
              /\ IF ReceiverAlive
                   THEN /\ event_ch' = Append(event_ch,
                                [ev |-> produced[tray_rx.pos + 1], src |-> "stream",
                                 at |-> tray_rx.pos + 1])
                        /\ after_shutdown' = after_shutdown + (IF shutdown_sent THEN 1 ELSE 0)
                        /\ worker' = "select"
                   ELSE /\ worker' = "finishing"
                        /\ UNCHANGED <<event_ch, after_shutdown>>
         ELSE /\ worker' = "finishing"
              /\ UNCHANGED <<tray_rx, event_ch, after_shutdown>>
  /\ UNCHANGED <<ExecVars, MenuVars, RegistryVars, UiVars, new_result, bus_items, bus_closed, produced,
                 handled, drain, strong, shutdown_sent, close, joined>>

\* the thread closure has returned and dropped what it owned; the thread ends
WorkerExit ==
  /\ worker = "finishing"
  /\ worker' = "terminated"
  /\ UNCHANGED <<ExecVars, MenuVars, RegistryVars, UiVars, new_result, bus_items, bus_closed, produced,
                 tray_rx, event_ch, handled, drain, strong, shutdown_sent,
                 after_shutdown, close, joined>>

NumAdds(q) == Cardinality({i \in 1..Len(q) : q[i].type = "Add"})

\* Adds that will reach the registry: the initial items and the broadcast Adds
PlannedAdds ==
  (IF worker = "subscribed"
     THEN Cardinality(bus_items)
     ELSE Cardinality({i \in 1..Len(handled \o event_ch) :
                          (handled \o event_ch)[i].src = "snapshot"}))
  + NumAdds(produced)

\* the items() table after the bus client applied an event
BusAfter(ev) ==
  CASE ev.type = "Add" -> bus_items \cup {ev.key}
    [] ev.type = "Remove" -> bus_items \ {ev.key}
    [] OTHER -> bus_items

\* the bus client broadcasts an event to the subscription; a receiver that is
\* StreamCapacity events behind loses the oldest one and is marked as lagged
AdapterEmit ==
  \E k \in Keys : \E ev \in BridgeEvents(k) :
    /\ worker \in {"subscribed", "select"}
    /\ ~bus_closed
    /\ Len(produced) < MaxEvents
    /\ (ev.type = "Add") = (k \notin bus_items)
    /\ ev.type = "Add" =>
         PlannedAdds + (IF worker = "subscribed" THEN 2 ELSE 1) <= MaxButtons
    /\ produced' = Append(produced, ev)
    /\ bus_items' = BusAfter(ev)
    /\ tray_rx' = [tray_rx EXCEPT
                     !.lagged = @ \/ (Len(produced) - tray_rx.pos >= StreamCapacity)]
    /\ UNCHANGED <<ExecVars, MenuVars, RegistryVars, UiVars, new_result, worker, bus_closed, event_ch,
                   handled, drain, strong, shutdown_sent, after_shutdown, close,
                   joined>>

\* the bus client ends the subscription stream
AdapterClose ==
  /\ worker \in {"subscribed", "select"}
  /\ ~bus_closed
  /\ bus_closed' = TRUE
  /\ UNCHANGED <<ExecVars, MenuVars, RegistryVars, UiVars, new_result, worker, bus_items, produced,
                 tray_rx, event_ch, handled, drain, strong, shutdown_sent,
                 after_shutdown, close, joined>>

\* the drain loop: event_rx.recv() yields the oldest entry, which is handled
\* to completion
Drain ==
  /\ drain = "running"
  /\ event_ch # <<>>
  /\ \E client_menu \in ClientRead(Head(event_ch).ev.key) :
       /\ handle_tray_event(Head(event_ch).ev, client_menu)
       /\ Observe(Observed(Head(event_ch).ev, client_menu))
  /\ handled' = Append(handled, Head(event_ch))
  /\ event_ch' = Tail(event_ch)
  /\ UNCHANGED <<ExecVars, MenuVars, UiVars, new_result, worker, bus_items, bus_closed, produced,
                 tray_rx, drain, strong, shutdown_sent, after_shutdown, close,
                 joined>>

\* a variant in which recv() yields None as soon as event_tx is gone
RecvIsNone_OnSenderDrop == ~SenderAlive

\* event_rx.recv() yields None: the channel is empty and event_tx is gone
RecvIsNone == event_ch = <<>> /\ ~SenderAlive

\* the while let loop ends when recv() yields None: the task ends and drops
\* its tray_ptr
DrainEnd ==
  /\ drain = "running"
  /\ RecvIsNone
  /\ drain' = "ended"
  /\ strong' = strong \ {"drain"}
  /\ UNCHANGED <<ExecVars, MenuVars, RegistryVars, UiVars, new_result, worker, bus_items, bus_closed,
                 produced, tray_rx, event_ch, handled, shutdown_sent,
                 after_shutdown, close, joined>>

\* a variant in which the value is dropped while references remain
LastReference_Ignored == TRUE

\* strong references held by pending activation tasks: the tasks of the click
\* closures move the upgraded Arc into the future, the tasks of the menu
\* entries hold the client only
ActivationRefs ==
  LET holders == {r \in BagToSet(in_flight) : r.kind \in {"Default", "Secondary"}}
  IN  BagCardinality([r \in holders |-> in_flight[r]])

\* Drop runs when the last strong reference to the TrayWidget is gone
LastReference == strong = {} /\ ActivationRefs = 0

\* Drop, first statement: shutdown_tx.send(())
DropSignal ==
  /\ new_result = "Ok"
  /\ close = "none"
  /\ LastReference
  /\ shutdown_sent' = TRUE
  /\ close' = "signalled"
  /\ UNCHANGED <<ExecVars, MenuVars, RegistryVars, UiVars, new_result, worker, bus_items, bus_closed,
                 produced, tray_rx, event_ch, handled, drain, strong,
                 after_shutdown, joined>>

\* strong count of the Arc<JoinHandle> at the try_unwrap in Drop: the field
\* self.thread_handle and the clone made one statement before
HandleRefsInDrop == 1 + 1

\* Arc::try_unwrap succeeds for the only reference
TryUnwrapOk == HandleRefsInDrop = 1

\* a variant in which dropping the TrayWidget cancels the pending tasks
InFlightAfterDrop_Cancelled == EmptyBag

\* the pending activation tasks after Drop: Drop does not refer to them
InFlightAfterDrop == in_flight

\* Drop, the rest: join if the handle could be unwrapped (which waits for the
\* thread), then clear items and item_buttons
DropFinish ==
  /\ close = "signalled"
  /\ TryUnwrapOk => worker \in {"terminated", "panicked"}
  /\ joined' = TryUnwrapOk
  /\ items' = EmptyMap
  /\ item_buttons' = EmptyMap
  /\ in_flight' = InFlightAfterDrop
  /\ close' = "returned"
  /\ UNCHANGED <<ExecVars, MenuVars, revision, item_menus, item_manual_popovers, action_groups,
                 item_to_service_key, container, button_state, last, fold_items,
                 fold_index, scenario, gesture, completed, new_result, worker, bus_items,
                 bus_closed, produced, tray_rx, event_ch, handled, drain, strong,
                 shutdown_sent, after_shutdown>>

\* the bus holds any set of items when the client connects
BridgeInit ==
  /\ RegistryInit
  /\ UiIdle
  /\ MenuIdle
  /\ ExecIdle
  /\ new_result = "pending"
  /\ worker = "unspawned"
  /\ bus_items \in SUBSET Keys
  /\ bus_closed = FALSE
  /\ produced = <<>>
  /\ tray_rx = [pos |-> 0, lagged |-> FALSE]
  /\ event_ch = <<>>
  /\ handled = <<>>
  /\ drain = "unspawned"
  /\ strong = {}
  /\ shutdown_sent = FALSE
  /\ after_shutdown = 0
  /\ close = "none"
  /\ joined = FALSE

BridgeNext ==
  \/ NewErr \/ NewOk \/ MainRelease
  \/ WorkerRuntimeFail \/ WorkerSubscribe \/ WorkerSnapshot \/ WorkerSelect \/ WorkerExit
  \/ AdapterEmit \/ AdapterClose
  \/ Drain \/ DrainEnd
  \/ DropSignal \/ DropFinish

BridgeSpec == BridgeInit /\ [][BridgeNext]_vars

\* the worker thread and the foreground main loop keep being scheduled, and
\* main leaves the block that holds the returned Arc
LiveBridge ==
  /\ BridgeSpec
  /\ WF_vars(WorkerRuntimeFail \/ WorkerSubscribe)
  /\ WF_vars(WorkerSnapshot)
  /\ WF_vars(WorkerSelect)
  /\ WF_vars(WorkerExit)
  /\ WF_vars(Drain)
  /\ WF_vars(DrainEnd)
  /\ WF_vars(MainRelease)
  /\ WF_vars(DropSignal)
  /\ WF_vars(DropFinish)

(***************************************************************************)
(* Properties                                                              *)
(***************************************************************************)
\* the realizations cached for a key, over both menu stores
Realizations(menus, popovers, k) ==
  {[store |-> "item_menus", kind |-> menus[x].kind, src |-> menus[x].src] :
      x \in (DOMAIN menus) \cap {k}}
  \cup
  {[store |-> "item_manual_popovers", kind |-> popovers[x].kind, src |-> popovers[x].src] :
      x \in (DOMAIN popovers) \cap {k}}

MenuKeys == (DOMAIN item_menus) \cup (DOMAIN item_manual_popovers)

\* C1: for every sequence of Add/Update/Remove events handled in order, the
\* registry equals the fold of the sequence: items holds per key the item of
\* the last Add not followed by a Remove, the index maps each item id to the
\* key of the last Add carrying it, and a removed key is in none of the maps
\* (items, index, menus).
C1_RegistryEqualsFold ==
  /\ items = fold_items
  /\ item_to_service_key = fold_index
  /\ MenuKeys \subseteq DOMAIN fold_items

\* C2: right after Remove(k) of a live key k nothing refers to k: k is a key
\* of no registry map, no item id resolves to k, and k's button has left the
\* container.
C2_RemovePurgesEverything ==
  (last.type = "Remove" /\ last.was_live) =>
    /\ last.key \notin DOMAIN items
    /\ last.key \notin DOMAIN item_buttons
    /\ last.key \notin DOMAIN item_menus
    /\ last.key \notin DOMAIN item_manual_popovers
    /\ last.key \notin DOMAIN action_groups
    /\ \A i \in DOMAIN item_to_service_key : item_to_service_key[i] # last.key
    /\ last.had_button => last.unshown = 1

\* C3: Remove(k) of an absent key (never added, or removed before) changes no
\* registry map and not the container.
C3_RemoveAbsentIsNoop ==
  [][(last'.type = "Remove" /\ last'.key \notin DOMAIN items)
       => (Registry' = Registry /\ button_state' = button_state)]_vars

C3_Witness ==
  /\ last.type = "Remove"
  /\ ~last.was_live
  /\ items # EmptyMap
  /\ item_to_service_key # EmptyMap
  /\ container # <<>>

\* C4: a second Add(k, item) with no Remove(k) in between overwrites the
\* stored item and leaves at most one realization cached for k over all menu
\* maps.
C4_ReAddKeepsOneRealization ==
  (last.type = "Add" /\ last.was_live) =>
    /\ items[last.key] = last.item
    /\ Cardinality(Realizations(item_menus, item_manual_popovers, last.key)) <= 1

\* C5: after Add(k1, item) and then Add(k2, item') with the same item id and
\* k1 # k2, get_service_key_for_item(item id) returns k2.
C5_IndexLastAddWins ==
  (/\ last.type = "Add"
   /\ \E k1 \in (DOMAIN items) \ {last.key} : items[k1].id = last.item.id)
    => get_service_key_for_item(last.item.id) = last.key

C5_Witness ==
  /\ last.type = "Add"
  /\ \E k1 \in (DOMAIN items) \ {last.key} : items[k1].id = last.item.id
  /\ get_service_key_for_item(last.item.id) = last.key

\* C6: after Add("svc:1", id "app"), Add("svc:2", id "app"), Remove("svc:2"),
\* get_service_key_for_item("app") returns none.
C6_RemovedKeyResolvesToNone ==
  scenario = 3 => get_service_key_for_item("app") = None

\* C7: after Add(k, item) followed by Update(k, Icon = X) the item stored for
\* k has icon X and otherwise the fields the Add gave.
C7_IconUpdateReachesStoredItem ==
  (last.type = "Update" /\ last.was_live /\ last.update.kind = "Icon") =>
    /\ last.key \in DOMAIN items
    /\ items[last.key] = [fold_items[last.key] EXCEPT !.icon_name = last.update.icon_name]

\* C8: Update(k, delta) for a key that is not in the registry is a no-op for
\* every kind of delta: no map and no button changes, no realization is built.
C8_UpdateUnknownIsNoop ==
  [][(last'.type = "Update" /\ last'.key \notin DOMAIN items)
       => (Registry' = Registry /\ button_state' = button_state)]_vars

C8_Witness ==
  /\ last.type = "Update"
  /\ ~last.was_live
  /\ last.update.kind = "MenuConnect"
  /\ last.seen \in MenuTrees
  /\ items # EmptyMap
  /\ last.key \notin MenuKeys

\* the menu tree an event brings for its key: the tree of a Menu update, or
\* the tree the handler of an Add or MenuConnect finds in the client's table
EventTree(ev) ==
  CASE ev.type = "Update" /\ ev.update.kind = "Menu" -> ev.update.menu
    [] ev.type = "Update" /\ ev.update.kind = "MenuConnect" -> ev.seen
    [] ev.type = "Add" -> ev.seen
    [] OTHER -> None

\* C9: once a realization is cached for k, a later menu-data event for k
\* (Update Menu, MenuConnect, a repeated Add with menu data) whose tree
\* differs leaves what is cached for k unchanged.
C9_FirstWriterWins ==
  [][(/\ EventTree(last') \in MenuTrees
      /\ Realizations(item_menus, item_manual_popovers, last'.key) # {}
      /\ \A r \in Realizations(item_menus, item_manual_popovers, last'.key) :
            r.src # <<EventTree(last')>>)
       => Realizations(item_menus', item_manual_popovers', last'.key)
            = Realizations(item_menus, item_manual_popovers, last'.key)]_vars

\* C10: in every reachable state a key has a realization in at most one of
\* item_menus and item_manual_popovers, and none when the key is not live.
C10_OneRealizationPerLiveKey ==
  \A k \in Keys :
    /\ ~(k \in DOMAIN item_menus /\ k \in DOMAIN item_manual_popovers)
    /\ k \in MenuKeys => k \in DOMAIN items

\* what the registry holds for a key
EntryOf(its, buttons, menus, popovers, groups, k) ==
  <<MapGet(its, k), MapGet(buttons, k), MapGet(menus, k), MapGet(popovers, k),
    MapGet(groups, k)>>

\* C28: handling Update(k, delta) changes neither identity nor membership:
\* the key sets of items, item_buttons and the item id index, the id of every
\* stored item, the container, and everything held for a key other than k
\* are the same before and after.
C28_UpdateKeepsIdentity ==
  [][(last'.type = "Update") =>
       /\ DOMAIN items' = DOMAIN items
       /\ DOMAIN item_buttons' = DOMAIN item_buttons
       /\ item_to_service_key' = item_to_service_key
       /\ \A x \in DOMAIN items : items'[x].id = items[x].id
       /\ container' = container
       /\ button_state' = button_state
       /\ \A x \in Keys \ {last'.key} :
            EntryOf(items', item_buttons', item_menus', item_manual_popovers',
                    action_groups', x)
              = EntryOf(items, item_buttons, item_menus, item_manual_popovers,
                        action_groups, x)]_vars

C28_Witness ==
  /\ last.type = "Update"
  /\ last.was_live
  /\ last.update.kind = "Menu"
  /\ last.key \in DOMAIN item_menus
  /\ item_menus[last.key].src = <<last.update.menu>>
  /\ Cardinality(DOMAIN items) = 2

MaxInFlight == 2

NoRequest == [kind |-> "None"]

\* the events handled while the clicks are observed
UiEvents(k) ==
  { [type |-> "Add", key |-> k, item |-> BusItem(k)],
    [type |-> "Update", key |-> k, update |-> [kind |-> "Menu", menu |-> "T1"]],
    [type |-> "Remove", key |-> k] }

\* the drain task handles an event between two clicks
UiEvent ==
  \E k \in Keys : \E ev \in UiEvents(k) : \E client_menu \in {NoMenu, "T1"} :
    /\ drain = "running"
    /\ ev.type = "Add" => Len(button_state) < MaxButtons
    /\ handle_tray_event(ev, client_menu)
    /\ UNCHANGED <<ExecVars, MenuVars, Bookkeeping, BridgeVars, UiVars>>

\* Weak::upgrade in the click closures: succeeds while a strong reference exists
Upgrade == strong # {} \/ ActivationRefs > 0

\* a variant that resolves the captured item id through the index
ActivationAddress_ViaIndex(b) == get_service_key_for_item(button_state[b].item_id)

\* the address the closures of a button put into a request: the service key
\* captured when the button was created
ActivationAddress(b) == button_state[b].service_key

\* the live key whose control the button is, if any
Owner(b) ==
  LET ks == {k \in DOMAIN items : k \in DOMAIN item_buttons /\ item_buttons[k] = b}
  IN  IF ks = {} THEN None ELSE CHOOSE k \in ks : TRUE

\* left_click.connect_pressed
LeftPressed(b) ==
  [popup |-> None, request |-> [kind |-> "Default", address |-> ActivationAddress(b)]]

\* middle_click.connect_pressed
MiddlePressed(b) ==
  [popup |-> None, request |-> [kind |-> "Secondary", address |-> ActivationAddress(b)]]

\* a variant of the right-click handler that does not look for a PopoverMenu
RightPressed_ManualOnly(b) ==
  LET service_key == button_state[b].service_key
  IN  IF service_key \in DOMAIN item_manual_popovers
        THEN [popup |-> "manual", request |-> NoRequest]
        ELSE [popup |-> None,
              request |-> [kind |-> "Default", address |-> ActivationAddress(b)]]

\* right_click.connect_pressed: the manual popover of the key, else its
\* PopoverMenu, else the fallback activation
RightPressed(b) ==
  LET service_key == button_state[b].service_key
  IN  IF service_key \in DOMAIN item_manual_popovers
        THEN [popup |-> "manual", request |-> NoRequest]
        ELSE IF service_key \in DOMAIN item_menus
          THEN [popup |-> "popover_menu", request |-> NoRequest]
          ELSE [popup |-> None,
                request |-> [kind |-> "Default", address |-> ActivationAddress(b)]]

Pressed(b, n) ==
  CASE n = 1 -> LeftPressed(b)
    [] n = 2 -> MiddlePressed(b)
    [] n = 3 -> RightPressed(b)

\* a variant that does not start a task for a request that is already pending
Spawned_Deduplicated(request) ==
  IF request = NoRequest \/ request \in BagToSet(in_flight)
    THEN in_flight
    ELSE in_flight (+) SetToBag({request})

\* glib::spawn_future_local: the request becomes a pending task
Spawned(request) ==
  IF request = NoRequest THEN in_flight ELSE in_flight (+) SetToBag({request})

\* a click with mouse button n on a tray button
Click ==
  \E b \in 1..Len(button_state), n \in {1, 2, 3} :
    /\ Upgrade
    /\ Pressed(b, n).request # NoRequest => BagCardinality(in_flight) < MaxInFlight
    /\ gesture' = [kind |-> "click", n |-> n, owner |-> Owner(b),
                   index |-> get_service_key_for_item(button_state[b].item_id),
                   cached |-> button_state[b].service_key \in MenuKeys,
                   popup |-> Pressed(b, n).popup,
                   request |-> Pressed(b, n).request]
    /\ in_flight' = Spawned(Pressed(b, n).request)
    /\ completed' = NoCompletion
    /\ UNCHANGED <<ExecVars, MenuVars, RegistryVars, BridgeVars>>

\* a click on an entry of the manual popover stored for a key
\* (item_button.connect_clicked in create_manual_popover_menu)
MenuSelect ==
  \E k \in DOMAIN item_manual_popovers :
    LET request == [kind |-> "MenuItem", address |-> item_manual_popovers[k].address,
                    menu_path |-> "/MenuBar", submenu_id |-> 1]
    IN  /\ BagCardinality(in_flight) < MaxInFlight
        /\ gesture' = [kind |-> "menu", n |-> 1, owner |-> k,
                       index |-> IF k \in DOMAIN items
                                   THEN get_service_key_for_item(items[k].id)
                                   ELSE None,
                       cached |-> TRUE, popup |-> None, request |-> request]
        /\ in_flight' = Spawned(request)
        /\ completed' = NoCompletion
        /\ UNCHANGED <<ExecVars, MenuVars, RegistryVars, BridgeVars>>

\* a variant in which the task unwraps the result of activate
DrainAfterActivation_Unwrap(outcome) == IF outcome = "Err" THEN "panicked" ELSE drain

\* the foreground after client.activate(..) returned: `if let Err(e)` logs
\* the error, the else branch logs the success, and the main loop goes on
DrainAfterActivation(outcome) == drain

\* a pending client.activate(..) call returns and its task ends
ActivationDone ==
  \E request \in BagToSet(in_flight), outcome \in {"Ok", "Err"} :
    /\ completed' = [outcome |-> outcome, closing |-> shutdown_sent]
    /\ in_flight' = in_flight (-) SetToBag({request})
    /\ gesture' = NoGesture
    /\ drain' = DrainAfterActivation(outcome)
    /\ UNCHANGED <<ExecVars, MenuVars, RegistryVars, new_result, worker, bus_items, bus_closed,
                   produced, tray_rx, event_ch, handled, strong, shutdown_sent,
                   after_shutdown, close, joined>>

\* the TrayWidget is up: the worker forwards, the drain task holds its reference
UiInit ==
  /\ RegistryInit
  /\ UiIdle
  /\ MenuIdle
  /\ ExecIdle
  /\ new_result = "Ok"
  /\ worker = "select"
  /\ bus_items = {}
  /\ bus_closed = FALSE
  /\ produced = <<>>
  /\ tray_rx = [pos |-> 0, lagged |-> FALSE]
  /\ event_ch = <<>>
  /\ handled = <<>>
  /\ drain = "running"
  /\ strong = {"drain"}
  /\ shutdown_sent = FALSE
  /\ after_shutdown = 0
  /\ close = "none"
  /\ joined = FALSE

UiNext == UiEvent \/ Click \/ MenuSelect \/ ActivationDone

UiSpec == UiInit /\ [][UiNext]_vars

\* the user interface while the bridge winds down: the subscription has ended
\* and the worker thread with it; the drain task handles what is left in the
\* channel and ends, and the TrayWidget is dropped
ShutdownInit ==
  /\ RegistryInit
  /\ UiIdle
  /\ MenuIdle
  /\ ExecIdle
  /\ new_result = "Ok"
  /\ worker = "terminated"
  /\ bus_items = {}
  /\ bus_closed = TRUE
  /\ produced = <<>>
  /\ tray_rx = [pos |-> 0, lagged |-> FALSE]
  /\ event_ch = <<>>
  /\ handled = <<>>
  /\ drain = "running"
  /\ strong = {"drain"}
  /\ shutdown_sent = FALSE
  /\ after_shutdown = 0
  /\ close = "none"
  /\ joined = FALSE

ShutdownNext ==
  \/ UiNext
  \/ DrainEnd
  \/ DropSignal \/ DropFinish

ShutdownSpec == ShutdownInit /\ [][ShutdownNext]_vars

(***************************************************************************)
(* Menu builders: manual_menu.rs, popover_menu.rs, widget.rs               *)
(* (create_popover_from_menu) and tray_widget.rs                           *)
(* (populate_gmenu_from_menu_items)                                        *)
(***************************************************************************)
\* a menu has at most this many top-level nodes
MaxMenuItems == 2

\* a node has at most this many children
MaxSubmenu == 1

\* labelled items: visible or not, enabled or not
ItemShapes ==
  [visible : BOOLEAN, enabled : BOOLEAN, labelled : {TRUE}, separator : {FALSE}]

\* nodes without label: a separator and a node of another type
PlainShapes ==
  [visible : {TRUE}, enabled : {TRUE}, labelled : {FALSE}, separator : BOOLEAN]

\* children are labelled items, visible or not
ChildShapes ==
  [visible : BOOLEAN, enabled : {TRUE}, labelled : {TRUE}, separator : {FALSE}]

SeqsUpTo(S, n) == UNION {[1..m -> S] : m \in 0..n}

\* system_tray::menu::MenuItem
MenuItem(id, shape, submenu) ==
  [id |-> id, visible |-> shape.visible, enabled |-> shape.enabled,
   labelled |-> shape.labelled, separator |-> shape.separator, submenu |-> submenu]

\* the menus the bus client can hold for an item; only labelled items have
\* children, and every node has its own id
TrayMenus ==
  LET Tops == [shape : ItemShapes, kids : SeqsUpTo(ChildShapes, MaxSubmenu)]
                \cup [shape : PlainShapes, kids : {<<>>}]
      WithIds(t) ==
        [i \in 1..Len(t) |->
           MenuItem(i, t[i].shape,
                    [j \in 1..Len(t[i].kids) |-> MenuItem(10 * i + j, t[i].kids[j], <<>>)])]
  IN  {WithIds(t) : t \in SeqsUpTo(Tops, MaxMenuItems)}

RECURSIVE Concat(_)
Concat(ss) == IF ss = <<>> THEN <<>> ELSE Head(ss) \o Concat(Tail(ss))

\* ActivateRequest::MenuItem { address, menu_path, submenu_id }
MenuItemRequest(service_key, item_id) ==
  [kind |-> "MenuItem", address |-> service_key, menu_path |-> "/MenuBar",
   submenu_id |-> item_id]

\* one widget or GMenu item of a built menu: what it is, the node it stands
\* for, whether it reacts to a click, the request its click sends, and the
\* menu it opens
Entry(kind, id, sensitive, request, nested) ==
  [kind |-> kind, id |-> id, sensitive |-> sensitive, request |-> request,
   nested |-> nested]

\* the "No menu items" label or action-less GMenu item
Placeholder == Entry("placeholder", 0, FALSE, NoRequest, <<>>)

Divider(item) == Entry("divider", item.id, FALSE, NoRequest, <<>>)

\* a button or action bound to the MenuItem activation of the node
ActivatingEntry(item, service_key) ==
  Entry("entry", item.id, item.enabled, MenuItemRequest(service_key, item.id), <<>>)

\* manual_menu.rs, the loop body: invisible nodes are skipped, separators
\* become dividers, labelled nodes become buttons; menu_item.submenu is not read
ManualEntries(menu_item, service_key) ==
  IF ~menu_item.visible THEN <<>>
  ELSE IF menu_item.separator THEN <<Divider(menu_item)>>
  ELSE IF menu_item.labelled THEN <<ActivatingEntry(menu_item, service_key)>>
  ELSE <<>>

\* manual_menu.rs, create_manual_popover_menu
create_manual_popover_menu(items_, service_key) ==
  LET menu_box == Concat([i \in 1..Len(items_) |-> ManualEntries(items_[i], service_key)])
  IN  IF menu_box = <<>> THEN <<Placeholder>> ELSE menu_box

\* popover_menu.rs, create_popover_menu: for a visible node, one button per
\* child that opens the popover built for that child, and then the node itself
\* as in manual_menu.rs
RECURSIVE create_popover_menu(_, _)
create_popover_menu(items_, service_key) ==
  LET SubmenuButtons(menu_item) ==
        [j \in 1..Len(menu_item.submenu) |->
           Entry("submenu", menu_item.submenu[j].id, TRUE, NoRequest,
                 create_popover_menu(<<menu_item.submenu[j]>>, service_key))]
      PerItem(menu_item) ==
        IF ~menu_item.visible THEN <<>>
        ELSE SubmenuButtons(menu_item) \o
             (IF menu_item.separator THEN <<Divider(menu_item)>>
              ELSE IF menu_item.labelled THEN <<ActivatingEntry(menu_item, service_key)>>
              ELSE <<>>)
      menu_box == Concat([i \in 1..Len(items_) |-> PerItem(items_[i])])
  IN  IF menu_box = <<>> THEN <<Placeholder>> ELSE menu_box

\* widget.rs, add_menu_items_recursive: a labelled node with children becomes
\* a submenu item over the menu built from its children, one without children
\* an item bound to an action
RECURSIVE add_menu_items_recursive(_, _)
add_menu_items_recursive(items_, service_key) ==
  LET PerItem(menu_item) ==
        IF ~menu_item.visible THEN <<>>
        ELSE IF menu_item.separator THEN <<Divider(menu_item)>>
        ELSE IF ~menu_item.labelled THEN <<>>
        ELSE IF menu_item.submenu # <<>>
          THEN <<Entry("submenu", menu_item.id, TRUE, NoRequest,
                       add_menu_items_recursive(menu_item.submenu, service_key))>>
          ELSE <<ActivatingEntry(menu_item, service_key)>>
  IN  Concat([i \in 1..Len(items_) |-> PerItem(items_[i])])

\* widget.rs, create_popover_from_menu
create_popover_from_menu(items_, service_key) ==
  LET gmenu == add_menu_items_recursive(items_, service_key)
  IN  IF gmenu = <<>> THEN <<Placeholder>> ELSE gmenu

\* tray_widget.rs, the loop of populate_gmenu_from_menu_items: a node without
\* label opens a section if the menu has items already, a labelled node
\* becomes an item whose action only prints
RECURSIVE PopulateLoop(_, _)
PopulateLoop(items_, gmenu) ==
  IF items_ = <<>> THEN gmenu
  ELSE LET item == Head(items_)
       IN  PopulateLoop(Tail(items_),
             IF ~item.visible THEN gmenu
             ELSE IF ~item.labelled
               THEN (IF gmenu # <<>>
                       THEN Append(gmenu, Entry("section", item.id, FALSE, NoRequest, <<>>))
                       ELSE gmenu)
               ELSE Append(gmenu, Entry("entry", item.id, item.enabled, NoRequest, <<>>)))

\* tray_widget.rs, populate_gmenu_from_menu_items
populate_gmenu_from_menu_items(items_) ==
  LET gmenu == PopulateLoop(items_, <<>>)
  IN  IF gmenu = <<>> THEN <<Placeholder>> ELSE gmenu

Builders ==
  {"create_manual_popover_menu", "create_popover_menu", "create_popover_from_menu",
   "populate_gmenu_from_menu_items"}

Realize(builder, items_, service_key) ==
  CASE builder = "create_manual_popover_menu" -> create_manual_popover_menu(items_, service_key)
    [] builder = "create_popover_menu" -> create_popover_menu(items_, service_key)
    [] builder = "create_popover_from_menu" -> create_popover_from_menu(items_, service_key)
    [] OTHER -> populate_gmenu_from_menu_items(items_)

\* the entries of a built menu, those of the menus it opens included
RECURSIVE Reachable(_)
Reachable(entries) ==
  UNION {{entries[i]} \cup Reachable(entries[i].nested) : i \in 1..Len(entries)}

\* a menu is built for a service key from the client's menu
BuildMenu ==
  \E builder \in Builders, service_key \in Keys :
    /\ menu_built = NoRealization
    /\ menu_built' = [builder |-> builder, service_key |-> service_key,
                      entries |-> Realize(builder, menu_items, service_key)]
    /\ UNCHANGED <<ExecVars, RegistryVars, BridgeVars, UiVars, menu_items, menu_pick>>

\* the user clicks an entry that reacts to clicks: its closure or action runs
SelectEntry ==
  /\ menu_built # NoRealization
  /\ \E e \in Reachable(menu_built.entries) :
       /\ e.sensitive
       /\ menu_pick' = [kind |-> e.kind, id |-> e.id,
                        sent |-> IF e.request = NoRequest THEN <<>> ELSE <<e.request>>]
  /\ UNCHANGED <<ExecVars, RegistryVars, BridgeVars, UiVars, menu_items, menu_built>>

MenuInit ==
  /\ RegistryInit
  /\ BridgeIdle
  /\ UiIdle
  /\ menu_items \in TrayMenus
  /\ menu_built = NoRealization
  /\ menu_pick = NoPick
  /\ ExecIdle

MenuNext == BuildMenu \/ SelectEntry

MenuSpec == MenuInit /\ [][MenuNext]_vars

(***************************************************************************)
(* Threads, foreground tasks and mutex guards, statement by statement.     *)
(* A function's code is the sequence of its statements that take or drop   *)
(* a guard, suspend, or start a thread or a task; a function with branches *)
(* is the set of its paths.                                                *)
(***************************************************************************)
Lock(m) == [op |-> "lock", arg |-> m]

Unlock(m) == [op |-> "unlock", arg |-> m]

Await(on) == [op |-> "await", arg |-> on]

ThreadSpawn == [op |-> "thread::spawn", arg |-> "start_event_listener"]

SpawnLocal(kind) == [op |-> "spawn_local", arg |-> kind]

ContainerAppend == [op |-> "append", arg |-> "container"]

Other(what) == [op |-> "other", arg |-> what]

Again == [op |-> "loop", arg |-> "event_rx.recv"]

\* if let Ok(guard) = m.lock() { body }: the guard lives to the closing brace
Guarded(m, body) == <<Lock(m)>> \o body \o <<Unlock(m)>>

\* TrayWidget::new: Client::new().await?, start_event_listener, spawn_local
new_code ==
  {<<Await("Client::new"), ThreadSpawn, SpawnLocal("drain")>>,
   <<Await("Client::new")>>}

\* a variant of the worker that keeps the guard of client.items() while it
\* waits in select!
WorkerCode_GuardAcrossSelect ==
  <<Other("Runtime::new"), Other("subscribe"), Lock("client.items"),
    Other("send"), Other("drop"), Await("select"), Other("send"), Again>>

\* the closure of thread::spawn in start_event_listener
WorkerCode ==
  <<Other("Runtime::new"), Other("subscribe"), Lock("client.items"),
    Other("send"), Unlock("client.items"), Await("select"), Other("send"), Again>>

\* the position of select! in the worker's code, and the position after its loop
SelectAt == 6

WorkerDone == Len(WorkerCode) + 1

\* widget.rs create_menu_for_item: a manual popover from the client's menu,
\* else the basic menu
create_menu_for_item_code ==
  {Guarded("client.items", Guarded("item_manual_popovers", <<>>)),
   Guarded("client.items", <<>>) \o Guarded("item_menus", <<>>)}

\* widget.rs add_tray_item
add_tray_item_code ==
  {Guarded("items", <<>>) \o Guarded("item_to_service_key", <<>>)
     \o <<Other("create_tray_button")>> \o Guarded("item_buttons", <<>>)
     \o menu \o <<ContainerAppend>> : menu \in create_menu_for_item_code}

\* widget.rs update_tray_item
update_tray_item_code ==
  {Guarded("item_buttons", Guarded("items", <<Other("set_button_icon")>>)),
   Guarded("item_buttons", Guarded("items", <<>>)),
   Guarded("item_buttons", <<>>)}

\* widget.rs remove_tray_item
remove_tray_item_code ==
  {Guarded("item_buttons", b) \o Guarded("item_menus", <<>>)
     \o Guarded("item_manual_popovers", <<>>) \o Guarded("action_groups", <<>>)
     \o Guarded("items", i) :
       b \in {<<>>, <<Other("container.remove")>>},
       i \in {<<>>, Guarded("item_to_service_key", <<>>)}}

\* a variant that looks the button up again while the Update arm holds the
\* guard of item_buttons
create_popover_menu_from_tray_menu_code_LocksButtons ==
  Guarded("item_buttons", <<>>) \o Guarded("item_menus", <<>>)

\* tray_widget.rs create_popover_menu_from_tray_menu
create_popover_menu_from_tray_menu_code == Guarded("item_menus", <<>>)

\* tray_widget.rs store_menu_for_item (no caller): the first guard is dropped
\* by drop(menus) before the mutex is locked again
store_menu_for_item_code ==
  {Guarded("item_menus", <<>>),
   <<Lock("item_menus"), Other("get"), Unlock("item_menus")>>
     \o Guarded("item_menus", <<Other("insert")>>) \o <<Other("end of if let")>>}

\* tray_widget.rs get_menu_for_item (no caller)
get_menu_for_item_code ==
  {Guarded("item_to_service_key", <<>>),
   Guarded("item_to_service_key", Guarded("item_menus", <<>>))}

\* tray_widget.rs create_popover_menu_for_service_key
create_popover_menu_for_service_key_code ==
  {Guarded("client.items", Guarded("item_menus", <<>>)),
   Guarded("client.items", <<>>) \o <<Other("create_basic_popover_menu")>>}

\* tray_widget.rs handle_tray_event, Event::Add
legacy_add_code ==
  {Guarded("items", <<>>) \o Guarded("item_to_service_key", <<>>)
     \o <<Other("create_tray_button")>> \o Guarded("item_buttons", <<>>)
     \o <<ContainerAppend>>}

\* tray_widget.rs handle_tray_event, Event::Remove
legacy_remove_code ==
  {Guarded("items", <<>>) \o Guarded("item_buttons", b) :
     b \in {<<>>, <<Other("container.remove")>>}}

\* tray_widget.rs handle_tray_event, Event::Update: the guard of
\* item_buttons lives for the whole match
legacy_update_code ==
  {Guarded("item_buttons", u) :
     u \in {<<>>, <<Other("set_button_icon")>>, Guarded("items", <<>>),
            Guarded("items", Guarded("item_menus", <<>>)),
            Guarded("items", Guarded("item_menus", <<>>)
                               \o create_popover_menu_from_tray_menu_code)}
           \cup {Guarded("items", c) : c \in create_popover_menu_for_service_key_code}}

\* a variant of the handlers that waits for the client in the middle of an Add
handle_tray_event_code_Suspends(rev) ==
  {Guarded("items", <<>>) \o <<Await("activate")>> \o Guarded("item_buttons", <<>>)
     \o <<ContainerAppend>>}

\* handle_tray_event of the revision: one path per event and lookup outcome
handle_tray_event_code(rev) ==
  IF rev = "widget"
    THEN add_tray_item_code \cup update_tray_item_code \cup remove_tray_item_code
    ELSE legacy_add_code \cup legacy_update_code \cup legacy_remove_code

\* the spawn_local task of TrayWidget::new: recv().await, then the handler
DrainCode(handler) == <<Await("event_rx.recv")>> \o handler \o <<Again>>

\* a variant of the activation that runs the request on a thread of its own
ActivationSpawn_OnThread == ThreadSpawn

\* glib::spawn_future_local(async move { client.activate(..).await .. })
ActivationSpawn == SpawnLocal("activation")

\* the future of an activation: one suspension, at activate(..).await
ActivationCode == <<Await("activate"), Other("println")>>

\* controls.rs: left_click and middle_click connect_pressed
pressed_code == {<<Other("upgrade"), ActivationSpawn>>, <<Other("upgrade")>>}

\* controls.rs: right_click connect_pressed
right_pressed_code ==
  {<<Other("upgrade")>> \o Guarded("item_manual_popovers", <<>>)
     \o <<Other("popup")>>,
   <<Other("upgrade")>> \o Guarded("item_manual_popovers", <<>>)
     \o Guarded("item_menus", <<>>) \o <<Other("popup")>>,
   <<Other("upgrade")>> \o Guarded("item_manual_popovers", <<>>)
     \o Guarded("item_menus", <<>>) \o <<ActivationSpawn>>}

\* manual_menu.rs: item_button.connect_clicked
entry_clicked_code == {<<Other("popdown"), ActivationSpawn>>}

\* the signal handlers a user can trigger once a button is shown
Callbacks(rev) ==
  pressed_code \cup right_pressed_code
    \cup (IF rev = "widget" THEN entry_clicked_code ELSE {})

FreeSlots == {t \in 1..MaxTasks : tasks[t].kind = "none"}

FirstFree == CHOOSE t \in FreeSlots : \A u \in FreeSlots : t <= u

\* the code a spawned task starts with
TaskCode(kind) ==
  IF kind = "drain" THEN DrainCode(<<>>) ELSE ActivationCode

Suspended(t) ==
  /\ tasks[t].kind # "none"
  /\ running # t
  /\ tasks[t].pc \in 1..Len(tasks[t].code)
  /\ tasks[t].code[tasks[t].pc].op = "await"

\* the main loop is idle and polls a task: a task that was never polled, or
\* a task whose awaited operation has finished
Resume ==
  /\ running = 0
  /\ \E t \in 1..MaxTasks :
       /\ tasks[t].kind # "none"
       /\ \/ /\ tasks[t].pc = 0
             /\ tasks' = [tasks EXCEPT ![t].pc = 1]
             /\ running' = t
             /\ UNCHANGED queued
          \/ /\ Suspended(t)
             /\ tasks[t].kind # "drain"
             /\ tasks' = [tasks EXCEPT ![t].pc = @ + 1]
             /\ running' = t
             /\ UNCHANGED queued
          \/ /\ Suspended(t)
             /\ tasks[t].kind = "drain"
             /\ queued > 0
             /\ \E handler \in handle_tray_event_code(revision) :
                  tasks' = [tasks EXCEPT ![t].code = DrainCode(handler), ![t].pc = 2]
             /\ running' = t
             /\ queued' = queued - 1
          \/ /\ Suspended(t)
             /\ tasks[t].kind = "drain"
             /\ queued = 0
             /\ listener_pc = WorkerDone
             /\ tasks' = [tasks EXCEPT ![t] = NoTask]
             /\ UNCHANGED <<running, queued>>
  /\ UNCHANGED <<RegistryVars, BridgeVars, UiVars, MenuVars,
                 threads, listener_pc, mutex, has_button>>

\* the user triggers a signal handler; it runs on the main thread at once
Press ==
  /\ running = 0
  /\ has_button
  /\ Cardinality(FreeSlots) >= 2
  /\ \E code \in Callbacks(revision) :
       tasks' = [tasks EXCEPT ![FirstFree] = [kind |-> "callback", code |-> code, pc |-> 1]]
  /\ running' = FirstFree
  /\ UNCHANGED <<RegistryVars, BridgeVars, UiVars, MenuVars,
                 threads, listener_pc, mutex, queued, has_button>>

\* the main thread executes the next statement of what it is running
FgStep ==
  /\ running # 0
  /\ LET t == running
         task == tasks[t]
         done == task.pc > Len(task.code)
         stmt == IF done THEN Other("return") ELSE task.code[task.pc]
         next == [tasks EXCEPT ![t].pc = @ + 1]
     IN  CASE done ->
                /\ tasks' = [tasks EXCEPT ![t] = NoTask]
                /\ running' = 0
                /\ UNCHANGED <<threads, listener_pc, mutex, has_button>>
           [] stmt.op = "lock" ->
                /\ mutex[stmt.arg] = Nobody
                /\ mutex' = [mutex EXCEPT ![stmt.arg] = t]
                /\ tasks' = next
                /\ UNCHANGED <<threads, listener_pc, running, has_button>>
           [] stmt.op = "unlock" ->
                /\ mutex' = [mutex EXCEPT ![stmt.arg] = Nobody]
                /\ tasks' = next
                /\ UNCHANGED <<threads, listener_pc, running, has_button>>
           [] stmt.op = "await" ->
                /\ running' = 0
                /\ UNCHANGED <<threads, listener_pc, tasks, mutex, has_button>>
           [] stmt.op = "thread::spawn" ->
                /\ threads' = threads + 1
                /\ listener_pc' = IF listener_pc = 0 THEN 1 ELSE listener_pc
                /\ tasks' = next
                /\ UNCHANGED <<running, mutex, has_button>>
           [] stmt.op = "spawn_local" ->
                /\ FreeSlots # {}
                /\ tasks' = [next EXCEPT ![FirstFree] =
                               [kind |-> stmt.arg, code |-> TaskCode(stmt.arg), pc |-> 0]]
                /\ UNCHANGED <<threads, listener_pc, running, mutex, has_button>>
           [] stmt.op = "append" ->
                /\ has_button' = TRUE
                /\ tasks' = next
                /\ UNCHANGED <<threads, listener_pc, running, mutex>>
           [] stmt.op = "loop" ->
                /\ tasks' = [tasks EXCEPT ![t].pc = 1]
                /\ UNCHANGED <<threads, listener_pc, running, mutex, has_button>>
           [] OTHER ->
                /\ tasks' = next
                /\ UNCHANGED <<threads, listener_pc, running, mutex, has_button>>
  /\ UNCHANGED <<RegistryVars, BridgeVars, UiVars, MenuVars, queued>>

\* the worker thread executes its next statement
WorkerStep ==
  /\ listener_pc \in 1..Len(WorkerCode)
  /\ LET stmt == WorkerCode[listener_pc]
     IN  CASE stmt.op = "lock" ->
                /\ mutex[stmt.arg] = Nobody
                /\ mutex' = [mutex EXCEPT ![stmt.arg] = WorkerThread]
                /\ listener_pc' = listener_pc + 1
                /\ UNCHANGED queued
           [] stmt.op = "unlock" ->
                /\ mutex' = [mutex EXCEPT ![stmt.arg] = Nobody]
                /\ listener_pc' = listener_pc + 1
                /\ UNCHANGED queued
           [] stmt.op = "await" ->
                \* an event arrives, or the stream ends or shutdown is signalled
                /\ listener_pc' \in {listener_pc + 1, WorkerDone}
                /\ UNCHANGED <<mutex, queued>>
           [] stmt = Other("send") ->
                \* the unbounded send never waits; the for loop sends 0..n times
                \/ /\ queued < MaxQueued
                   /\ queued' = queued + 1
                   /\ listener_pc' \in {listener_pc, listener_pc + 1}
                   /\ UNCHANGED mutex
                \/ /\ listener_pc < SelectAt
                   /\ listener_pc' = listener_pc + 1
                   /\ UNCHANGED <<mutex, queued>>
           [] stmt.op = "loop" ->
                /\ listener_pc' = SelectAt
                /\ UNCHANGED <<mutex, queued>>
           [] OTHER ->
                /\ listener_pc' = listener_pc + 1
                /\ UNCHANGED <<mutex, queued>>
  /\ UNCHANGED <<RegistryVars, BridgeVars, UiVars, MenuVars,
                 threads, tasks, running, has_button>>

\* main.rs has spawned the task that runs TrayWidget::new().await
ExecInit ==
  /\ RegistryInit
  /\ BridgeIdle
  /\ UiIdle
  /\ MenuIdle
  /\ threads = 0
  /\ listener_pc = 0
  /\ \E code \in new_code :
       tasks = [t \in 1..MaxTasks |->
                  IF t = 1 THEN [kind |-> "new", code |-> code, pc |-> 0] ELSE NoTask]
  /\ running = 0
  /\ mutex = [m \in Locks |-> Nobody]
  /\ queued = 0
  /\ has_button = FALSE

ExecNext == Resume \/ Press \/ FgStep \/ WorkerStep

ExecSpec == ExecInit /\ [][ExecNext]_vars

\* the main loop and the worker thread keep being scheduled
LiveExec ==
  /\ ExecSpec
  /\ WF_vars(Resume)
  /\ WF_vars(FgStep)
  /\ WF_vars(WorkerStep)

\* the guards a code holds when it reaches its statement i
Held(code, i) ==
  {m \in Locks : \E j \in 1..(i - 1) :
      /\ code[j] = Lock(m)
      /\ \A l \in (j + 1)..(i - 1) : code[l] # Unlock(m)}

\* every code of the repository that takes a guard
LockingCode ==
  UNION {handle_tray_event_code(rev) \cup Callbacks(rev) : rev \in Revisions}
    \cup {WorkerCode} \cup store_menu_for_item_code \cup get_menu_for_item_code

\* <<h, m>>: some code locks m while it holds the guard of h
LockOrder ==
  {hm \in Locks \X Locks :
     \E code \in LockingCode : \E i \in 1..Len(code) :
       code[i] = Lock(hm[2]) /\ hm[1] \in Held(code, i)}

\* the mutexes left after those that are locked under no remaining guard
\* have been taken away, repeatedly: the mutexes on a cycle of the order
RECURSIVE OnCycle(_)
OnCycle(ms) ==
  LET first == {m \in ms : \A h \in ms : <<h, m>> \notin LockOrder}
  IN  IF first = {} THEN ms ELSE OnCycle(ms \ first)

(***************************************************************************)
(* Properties of the bridge                                                *)
(***************************************************************************)
\* the channel entries the worker has sent so far, in order
Sent == handled \o event_ch

\* the subscription events among a sequence of channel entries
StreamEvents(q) ==
  LET f == SelectSeq(q, LAMBDA e : e.src = "stream")
  IN  [i \in 1..Len(f) |-> f[i].ev]

IsPrefix(a, b) == Len(a) <= Len(b) /\ \A i \in 1..Len(a) : a[i] = b[i]

\* C11: the subscription events the registry has handled are, in order, the
\* events the bus client produced: always a prefix of them, and all of them
\* once the bridge has wound down without a shutdown having cut it short.
C11_HandledIsProduced ==
  /\ IsPrefix(StreamEvents(Sent), produced)
  /\ IsPrefix(StreamEvents(handled), StreamEvents(Sent))
  /\ (drain = "ended" /\ ~shutdown_sent) => StreamEvents(handled) = produced

\* C12: the worker sends one synthesized Add per item of the initial snapshot
\* and only then forwards subscription events, so in the channel order (which
\* is the order of handling) every initial Add precedes every stream event.
C12_InitialAddsFirst ==
  /\ [][(worker = "subscribed" /\ worker' = "select") =>
          /\ Len(event_ch') = Len(event_ch) + Cardinality(bus_items)
          /\ \A k \in bus_items :
               Cardinality({i \in (Len(event_ch) + 1)..Len(event_ch') :
                              event_ch'[i] = InitialAdd(k)}) = 1
          /\ StreamEvents(Sent') = <<>>]_vars
  /\ [](\A i, j \in 1..Len(Sent) :
          (Sent[i].src = "stream" /\ Sent[j].src = "snapshot") => j < i)

C12_Witness ==
  /\ Len(handled) = 3
  /\ handled[1].src = "snapshot"
  /\ handled[2].src = "snapshot"
  /\ handled[3].src = "stream"

\* C13: once the shutdown signal is sent the worker enqueues at most one more
\* event, the worker thread comes to its end and Drop returns.
C13_ShutdownStopsWorker ==
  /\ [](shutdown_sent => after_shutdown <= 1)
  /\ (shutdown_sent ~> (worker \in {"terminated", "panicked"} /\ close = "returned"))

C13_Witness ==
  /\ shutdown_sent
  /\ close = "returned"
  /\ worker = "terminated"
  /\ Len(handled) >= 2

\* C14: whenever Drop has returned it has joined the worker thread, which has
\* therefore terminated.
C14_CloseJoinsWorker ==
  close = "returned" => (joined /\ worker \in {"terminated", "panicked"})

\* C18: when connecting to the bus fails, new returns the error: no worker
\* thread, no drain task, no reference to a TrayWidget, nothing in the
\* registry and nothing in the container.
C18_ConnectErrorStartsNothing ==
  new_result = "Err" =>
    /\ worker = "unspawned"
    /\ drain = "unspawned"
    /\ strong = {}
    /\ event_ch = <<>> /\ handled = <<>>
    /\ items = EmptyMap /\ item_buttons = EmptyMap
    /\ container = <<>>
    /\ close = "none" /\ ~shutdown_sent

C18_Witness == new_result = "Err" /\ bus_items # {}

\* C19: no failure of an external dependency makes a thread of the core panic.
C19_NeverPanics == worker # "panicked"

\* C20: once the subscription stream has ended or the shutdown signal was
\* sent, a worker that is in (or about to enter) its select loop terminates.
C20_WorkerTerminates ==
  ((bus_closed \/ shutdown_sent) /\ worker \in {"subscribed", "select"})
    ~> (worker = "terminated")

C20_Witness ==
  /\ bus_closed
  /\ worker = "terminated"
  /\ ~tray_rx.lagged
  /\ tray_rx.pos = Len(produced)
  /\ Len(produced) >= 2

(***************************************************************************)
(* Properties of the click handlers and activation tasks                   *)
(***************************************************************************)
\* C15: a primary click issues a Default activation, a middle click a
\* Secondary activation; a right click opens the menu cached for the button's
\* service key and issues nothing if one is cached, and issues a Default
\* activation otherwise.
C15_ClickMapping ==
  gesture.kind = "click" =>
    CASE gesture.n = 1 -> gesture.popup = None /\ gesture.request.kind = "Default"
      [] gesture.n = 2 -> gesture.popup = None /\ gesture.request.kind = "Secondary"
      [] OTHER -> IF gesture.cached
                    THEN gesture.popup # None /\ gesture.request = NoRequest
                    ELSE gesture.popup = None /\ gesture.request.kind = "Default"

C15_Witness ==
  /\ gesture.kind = "click"
  /\ gesture.n = 3
  /\ gesture.cached
  /\ gesture.popup = "popover_menu"
  /\ in_flight # EmptyBag

\* C16: a request caused by a gesture on the control or on the menu of the
\* item stored under key k carries address k, also when the item id index
\* resolves the item's id to another key.
C16_AddressIsServiceKey ==
  (gesture.kind \in {"click", "menu"} /\ gesture.request # NoRequest
     /\ gesture.owner # None)
    => gesture.request.address = gesture.owner

C16_Witness ==
  /\ gesture.kind = "click"
  /\ gesture.request # NoRequest
  /\ gesture.owner # None
  /\ gesture.index \notin {None, gesture.owner}
  /\ gesture.request.address = gesture.owner

\* C17: when an activation call fails, the step that ends its task changes no
\* registry map, no button and neither the worker nor the drain task, and it
\* leaves the other pending tasks pending; afterwards events are still
\* handled and clicks still issue requests.
C17_FailedActivationIsHarmless ==
  /\ [][(BagCardinality(in_flight') < BagCardinality(in_flight)
           /\ completed'.outcome = "Err") =>
          /\ Registry' = Registry
          /\ button_state' = button_state
          /\ worker' = worker /\ drain' = drain /\ strong' = strong
          /\ BagCardinality(in_flight') = BagCardinality(in_flight) - 1]_vars
  /\ [](completed.outcome = "Err" =>
          /\ ENABLED UiEvent
          /\ button_state # <<>> => ENABLED Click)

C17_Witness ==
  /\ completed.outcome = "Err"
  /\ in_flight # EmptyBag
  /\ items # EmptyMap

\* C24: a gesture that maps to an activation adds exactly one pending request,
\* also when an equal request is pending already, and leaves the other pending
\* requests as they are; a gesture that opens a menu adds none; pending
\* requests neither keep a further click from issuing its request nor each
\* other from completing.
C24_OneRequestPerGesture ==
  /\ [][(gesture'.kind # "None" /\ (gesture' # gesture \/ in_flight' # in_flight)) =>
          in_flight' = IF gesture'.request = NoRequest
                         THEN in_flight
                         ELSE in_flight (+) SetToBag({gesture'.request})]_vars
  /\ []((button_state # <<>> /\ BagCardinality(in_flight) < MaxInFlight) => ENABLED Click)
  /\ [](in_flight # EmptyBag => ENABLED ActivationDone)

C24_Witness ==
  /\ gesture.kind = "click"
  /\ gesture.request # NoRequest
  /\ CopiesIn(gesture.request, in_flight) = 2

\* C30: the steps of Drop, which sends the shutdown signal, leave every pending
\* activation task pending; a task pending after the signal can still end with
\* either outcome, and the step that ends it changes no registry map, no
\* button and not the container.
C30_ShutdownKeepsActivations ==
  /\ [][close' # close => in_flight' = in_flight]_vars
  /\ [][(shutdown_sent /\ BagCardinality(in_flight') < BagCardinality(in_flight)) =>
          /\ completed'.outcome \in {"Ok", "Err"}
          /\ Registry' = Registry
          /\ button_state' = button_state]_vars
  /\ []((shutdown_sent /\ in_flight # EmptyBag) => ENABLED ActivationDone)

C30_Witness ==
  /\ close = "returned"
  /\ completed.outcome = "Ok"
  /\ completed.closing
  /\ in_flight # EmptyBag

(***************************************************************************)
(* Properties of the menu builders                                         *)
(***************************************************************************)
\* the nodes of a menu that are to be shown: visible, below visible nodes only
RECURSIVE Shown(_)
Shown(items_) ==
  UNION {{items_[i]} \cup Shown(items_[i].submenu) :
           i \in {j \in 1..Len(items_) : items_[j].visible}}

\* a labelled node without children that is not a separator
IsLeaf(n) == n.labelled /\ ~n.separator /\ n.submenu = <<>>

\* C25: selecting the entry of a shown, enabled leaf node of the menu built
\* for service key k sends exactly one MenuItem activation, with address k and
\* the node's id as submenu_id.
C25_LeafSelectActivates ==
  (/\ menu_pick.kind = "entry"
   /\ \E n \in Shown(menu_items) : n.id = menu_pick.id /\ n.enabled /\ IsLeaf(n))
    => menu_pick.sent = <<MenuItemRequest(menu_built.service_key, menu_pick.id)>>

\* C26: in a built menu a shown node with children is realized by submenu
\* triggers only, each opening a menu that holds exactly its shown children,
\* and by no entry that sends an activation for the node itself.
C26_ParentsAreSubmenus ==
  menu_built # NoRealization =>
    \A n \in Shown(menu_items) :
      n.submenu # <<>> =>
        LET es == {e \in Reachable(menu_built.entries) : e.id = n.id}
        IN  /\ es # {}
            /\ \A e \in es :
                 /\ e.kind = "submenu"
                 /\ e.request = NoRequest
                 /\ {x.id : x \in Reachable(e.nested)} = {c.id : c \in Shown(n.submenu)}

\* C27: a built menu has no entry, divider or submenu trigger for a node that
\* is invisible or below an invisible node, and a menu without visible node
\* is built as one placeholder, which takes no click and sends nothing.
C27_InvisibleSkipped ==
  menu_built # NoRealization =>
    /\ \A e \in Reachable(menu_built.entries) :
         IF e.kind = "placeholder"
           THEN ~e.sensitive /\ e.request = NoRequest
           ELSE \E n \in Shown(menu_items) : n.id = e.id
    /\ Shown(menu_items) = {} => menu_built.entries = <<Placeholder>>

(***************************************************************************)
(* Properties of threads, tasks and guards                                 *)
(***************************************************************************)
Activations == {t \in 1..MaxTasks : tasks[t].kind = "activation"}

DrainTasks == {t \in 1..MaxTasks : tasks[t].kind = "drain"}

\* the drain task has taken an event and its handler has not returned
MidHandler(t) ==
  tasks[t].kind = "drain" /\ tasks[t].pc \in 2..(Len(tasks[t].code) - 1)

C22_HandlersRunToCompletion ==
  /\ [](\A t \in 1..MaxTasks : MidHandler(t) => running = t)
  /\ [][queued' < queued =>
          /\ running = 0
          /\ \A t \in DrainTasks : tasks[t].pc = 1]_vars
  /\ [][(\E t \in 1..MaxTasks : MidHandler(t)) =>
          \A u \in 1..MaxTasks : tasks[u].kind # "drain" => tasks'[u] = tasks[u]]_vars

C22_Witness ==
  /\ \E t \in 1..MaxTasks : MidHandler(t) /\ tasks[t].pc > 2
  /\ \E u \in Activations : Suspended(u)
  /\ queued > 0
  /\ has_button

\* C23: a task suspended at an await holds no guard of a registry mutex or of
\* the client's items() mutex, and the worker holds none while it waits in
\* select! or after it has left its loop.
C23_NoGuardAcrossAwait ==
  /\ \A t \in 1..MaxTasks : Suspended(t) => \A m \in Locks : mutex[m] # t
  /\ listener_pc \in {SelectAt, WorkerDone} => \A m \in Locks : mutex[m] # WorkerThread

C23_Witness ==
  /\ listener_pc = SelectAt
  /\ queued > 0
  /\ \E t \in Activations : Suspended(t)
  /\ \E t \in DrainTasks :
       /\ Suspended(t)
       /\ \E i \in 1..Len(tasks[t].code) : tasks[t].code[i] = Lock("client.items")

(***************************************************************************)
(* Further properties of the registry                                      *)
(***************************************************************************)
\* C31: index consistency in every reachable state: whenever the index maps
\* an item id i to a key k, k is a key of items and the item stored under k
\* has id i.
C31_IndexConsistent ==
  \A i \in DOMAIN item_to_service_key :
    /\ item_to_service_key[i] \in DOMAIN items
    /\ items[item_to_service_key[i]].id = i

\* C32: Remove(k) leaves the index entries of the other keys alone: an item
\* id that resolves to a live key other than k before the Remove resolves to
\* the same key after it.
C32_RemoveKeepsOtherKeys ==
  [][last'.type = "Remove" =>
       \A i \in DOMAIN item_to_service_key :
         (/\ item_to_service_key[i] # last'.key
          /\ item_to_service_key[i] \in DOMAIN items)
           => MapGet(item_to_service_key', i) = item_to_service_key[i]]_vars

\* C33: in every reachable state the buttons in the container are exactly
\* the values of item_buttons, one per live service key.
C33_ContainerIsButtons ==
  /\ DOMAIN item_buttons = DOMAIN items
  /\ {container[j] : j \in 1..Len(container)} = {item_buttons[k] : k \in DOMAIN item_buttons}
  /\ Len(container) = Cardinality(DOMAIN items)

\* C39: the registry is a function of the handled events alone: the state an
\* Add or an Update leaves is the state its handler produces from the state
\* before it for every content of the client's items() table, not only for
\* the content the handler happened to find.
C39_SnapshotIndependent ==
  [][/\ (last'.type = "Add" /\ revision = "widget") =>
          \A c \in ClientMenus : add_tray_item(last'.key, last'.item, c)
     /\ (last'.type = "Update" /\ revision = "legacy") =>
          \A c \in ClientMenus : legacy_update(last'.key, last'.update, c)]_vars

(***************************************************************************)
(* Further properties of the bridge                                        *)
(***************************************************************************)
\* C34: the registry never receives two Add events for the same service key
\* without a Remove of that key between them, however the bus client's
\* updates interleave with the worker's subscribe and snapshot.
C34_NoDoubleAdd ==
  \A i, j \in 1..Len(handled) :
    (/\ i < j
     /\ handled[i].ev.type = "Add"
     /\ handled[j].ev.type = "Add"
     /\ handled[i].ev.key = handled[j].ev.key)
      => \E m \in (i + 1)..(j - 1) :
            handled[m].ev.type = "Remove" /\ handled[m].ev.key = handled[i].ev.key

\* C36: shutdown is reached while the bus is still live: once new has
\* succeeded and its caller has released the handle, the shutdown signal is
\* eventually sent and the worker eventually terminates.
C36_ShutdownReachable ==
  (new_result = "Ok" /\ "main" \notin strong)
    ~> (shutdown_sent /\ worker \in {"terminated", "panicked"})

\* C37: both ends wind down together without losing queued events: the
\* receiver is gone only after the worker has left its loop, so no send
\* fails; once the worker has terminated the drain task ends, and it ends
\* only with an empty channel, so every event sent was handled; after the
\* drain task has ended no event is handled any more.
C37_WindDownTogether ==
  /\ [](drain = "ended" => (event_ch = <<>> /\ ~SenderAlive))
  /\ [][drain = "ended" =>
          (handled' = handled /\ last' = last /\ drain' = drain)]_vars
  /\ (worker = "terminated") ~> (drain = "ended")

C37_Witness ==
  /\ drain = "ended"
  /\ worker = "terminated"
  /\ \E i \in 1..Len(handled) : handled[i].src = "snapshot"
  /\ \E i \in 1..Len(handled) : handled[i].src = "stream"
  /\ close = "returned"

\* C38: the worker leaves its loop only because the subscription stream is
\* closed, the shutdown signal was received, or the receiver of the channel
\* is gone; having lagged behind the subscription is not a reason.
C38_StopsOnlyForCause ==
  [][(worker = "select" /\ worker' = "finishing") =>
       (bus_closed \/ shutdown_sent \/ ~ReceiverAlive)]_vars

(***************************************************************************)
(* Further properties of threads, tasks and guards                         *)
(***************************************************************************)
\* the order in which the mutexes are acquired has no cycle
NoOrderCycle == OnCycle(Locks) = {}

\* no code locks a mutex whose guard it holds
NoRelock ==
  \A code \in LockingCode : \A i \in 1..Len(code) :
    code[i].op = "lock" => code[i].arg \notin Held(code, i)

\* the next statement of the task the main thread is running, if it is a lock
WantsLock(m) ==
  /\ running # 0
  /\ tasks[running].pc \in 1..Len(tasks[running].code)
  /\ tasks[running].code[tasks[running].pc] = Lock(m)

\* C35: the core is deadlock-free: the order in which the code acquires the
\* mutexes has no cycle; no code locks a mutex whose guard it holds; a
\* mutex the main thread is about to lock is free or held by the worker,
\* which then waits for nothing; and the handling of every event that was
\* taken from the channel completes.
C35_DeadlockFree ==
  /\ [](NoOrderCycle /\ NoRelock)
  /\ [](\A m \in Locks : WantsLock(m) =>
          \/ mutex[m] = Nobody
          \/ mutex[m] = WorkerThread /\ ENABLED WorkerStep)
  /\ (\E t \in 1..MaxTasks : MidHandler(t)) ~> (\A t \in 1..MaxTasks : ~MidHandler(t))

C35_Witness ==
  /\ revision = "legacy"
  /\ WantsLock("client.items")
  /\ mutex["client.items"] = WorkerThread
  /\ mutex["item_buttons"] = running
  /\ mutex["items"] = running
  /\ has_button
====
